---- MODULE Spec2Model ----
(***************************************************************************)
(* Model of src/main.py: the configuration loader with its environment     *)
(* placeholder resolution, the summary truncation of                       *)
(* PDFAnalyzer.analyze_text, the result persister and the batch loop of    *)
(* main() with the script's top-level error handling.                      *)
(*                                                                         *)
(* Python strings are sequences of one-character strings.  Values that     *)
(* yaml.safe_load can return are tagged records [tag, val]:                *)
(*   "str" (val: characters), "int" (val: integer),                        *)
(*   "list" (val: sequence of values),                                     *)
(*   "dict" (val: sequence of <<key, value>> pairs in insertion order).    *)
(* A raised exception is a record whose tag is the exception's class.      *)
(***************************************************************************)
EXTENDS Integers, Sequences, FiniteSets, TLC

VARIABLES
    configFile,      \* config.yaml on disk: [exists, parses, tree]
    environ,         \* os.environ: function from the set names to values
    dirs,            \* which of the directories "input"/"output" exist
    inputDir,        \* the *.pdf files of the input directory
    out,             \* output directory: out[p] is the file <stem>_summary.json
    pc,              \* position of the script
    exitCode,        \* process exit code, meaningful when pc = "exited"
    config,          \* initial_config of __main__ (result of load_configuration)
    max_length,      \* analyzer.max_length
    pdf_files,       \* list(input_dir.glob("*.pdf")) of the current run
    idx,             \* position of the for loop in pdf_files
    pdf_text,        \* local of the loop body
    analysis_result, \* local of the loop body
    run,             \* number of the current execution of the script
    out0,            \* output directory as it was when the current run started
    events,          \* side effects of the current run, in order
    failedPrev       \* PDFs whose processing raised in the previous run

vars == <<configFile, environ, dirs, inputDir, out, pc, exitCode, config,
          max_length, pdf_files, idx, pdf_text, analysis_result, run, out0,
          events, failedPrev>>

-----------------------------------------------------------------------------
(* Bounds of the model *)

NumPdfs == 2        \* PDFs that may lie in the input directory
MaxRuns == 2        \* successive executions of the script
MaxTextLen == 3     \* longest text the remote service generates
MaxMaxLength == 4   \* largest configured summary.max_length
NegMaxLength == 2   \* the smallest configured summary.max_length is -NegMaxLength
MaxStrLen == 5      \* longest configuration string of the resolution check
MaxDepth == 2       \* nesting depth of the configuration trees

(* Program constants *)

DefaultMaxLength == 500

-----------------------------------------------------------------------------
(* Strings *)

Min(S) == CHOOSE x \in S : \A y \in S : x <= y

Range(s) == {s[j] : j \in 1..Len(s)}

StartsWith(s, prefix) ==
    Len(s) >= Len(prefix) /\ SubSeq(s, 1, Len(prefix)) = prefix

EndsWith(s, suffix) ==
    Len(s) >= Len(suffix) /\ SubSeq(s, Len(s) - Len(suffix) + 1, Len(s)) = suffix

\* s[start:stop] of Python for start >= 0 and any stop (0-based, stop exclusive;
\* a negative stop counts from the end).
Slice(s, start, stop) ==
    LET e == IF stop < 0 THEN (IF Len(s) + stop < 0 THEN 0 ELSE Len(s) + stop)
             ELSE (IF stop > Len(s) THEN Len(s) ELSE stop)
    IN  SubSeq(s, start + 1, e)

RECURSIVE SeqsUpTo(_, _)
SeqsUpTo(S, n) ==
    IF n = 0 THEN {<<>>}
    ELSE LET shorter == SeqsUpTo(S, n - 1)
         IN  shorter \cup {Append(s, c) : s \in shorter, c \in S}

-----------------------------------------------------------------------------
(* Values of a configuration *)

StrVal(s) == [tag |-> "str", val |-> s]
IntVal(n) == [tag |-> "int", val |-> n]
List(items) == [tag |-> "list", val |-> items]
Dict(pairs) == [tag |-> "dict", val |-> pairs]
Raise(class, arg) == [tag |-> class, val |-> arg]

ErrorClasses == {"FileNotFoundError", "YAMLError", "EnvironmentError"}
IsRaise(v) == v.tag \in ErrorClasses

\* os.getenv(name): None when the variable is not set
None == [none |-> TRUE, val |-> <<>>]
Some(v) == [none |-> FALSE, val |-> v]
getenv(env, name) == IF name \in DOMAIN env THEN Some(env[name]) ELSE None

\* `not env_value` accepting the empty string (mutant of Falsy)
FalsyNoneOnly(v) == v.none
\* `not env_value` of line 59: None and "" are both falsy
Falsy(v) == v.none \/ v.val = <<>>

\* config[2:-1] of line 57
EnvVarName(s) == Slice(s, 2, -1)

\* A substring test instead of the prefix test (mutant of IsPlaceholderString)
IsPlaceholderSubstring(s) ==
    /\ \E j \in 1..(Len(s) - 1) : SubSeq(s, j, j + 1) = <<"$", "{">>
    /\ EndsWith(s, <<"}">>)
\* config.startswith("${") and config.endswith("}") of line 55
IsPlaceholderString(s) == StartsWith(s, <<"$", "{">>) /\ EndsWith(s, <<"}">>)

RECURSIVE resolve_env_variables(_, _)
resolve_env_variables(cfg, env) ==
    IF cfg.tag = "dict" THEN
        LET r == [j \in 1..Len(cfg.val) |->
                     resolve_env_variables(cfg.val[j][2], env)]
            bad == {j \in 1..Len(cfg.val) : IsRaise(r[j])}
        IN  IF bad # {} THEN r[Min(bad)]
            ELSE Dict([j \in 1..Len(cfg.val) |-> <<cfg.val[j][1], r[j]>>])
    ELSE IF cfg.tag = "list" THEN
        LET r == [j \in 1..Len(cfg.val) |-> resolve_env_variables(cfg.val[j], env)]
            bad == {j \in 1..Len(cfg.val) : IsRaise(r[j])}
        IN  IF bad # {} THEN r[Min(bad)] ELSE List(r)
    ELSE IF cfg.tag = "str" /\ IsPlaceholderString(cfg.val) THEN
        LET env_var == EnvVarName(cfg.val)
            env_value == getenv(env, env_var)
        IN  IF Falsy(env_value) THEN Raise("EnvironmentError", env_var)
            ELSE StrVal(env_value.val)
    ELSE cfg

\* Config.load_config / load_configuration
load_config(file, env) ==
    IF ~file.exists THEN Raise("FileNotFoundError", <<>>)
    ELSE IF ~file.parses THEN Raise("YAMLError", <<>>)
    ELSE resolve_env_variables(file.tree, env)

\* dict.get(key, default) and dict[key]; a missing key of dict[key] is not modelled
HasKey(d, key) == \E j \in 1..Len(d.val) : d.val[j][1] = key
Get(d, key, default) ==
    IF HasKey(d, key)
    THEN d.val[CHOOSE j \in 1..Len(d.val) : d.val[j][1] = key][2]
    ELSE default


-----------------------------------------------------------------------------
(* The files and the remote service *)

Pdfs == 1..NumPdfs

\* Text PyPDF2 extracts from the pages of PDF p (a sample document of p pages,
\* every second page without extractable text).
PdfPages(p) == [j \in 1..p |-> IF j % 2 = 0 THEN <<>> ELSE <<"A">>]

\* PDFExtractor.extract_text: page texts in page order, a newline after each
\* page that yields text.
RECURSIVE extract_text(_)
extract_text(pages) ==
    IF pages = <<>> THEN <<>>
    ELSE LET page_text == Head(pages)
         IN  (IF page_text # <<>> THEN page_text \o <<"\n">> ELSE <<>>)
             \o extract_text(Tail(pages))

TextChars == {"a", "b"}
AllTexts == SeqsUpTo(TextChars, MaxTextLen)
Alternating(n) == [j \in 1..n |-> IF j % 2 = 1 THEN "a" ELSE "b"]
\* The texts the remote service returns in the batch specification: one short
\* and one of the greatest length.
ServiceTexts == {Alternating(1), Alternating(MaxTextLen)}

\* What the chain returns for a document: the generated text and the token
\* counters of the callback.
Reply(document, text) ==
    [content |-> text, prompt_tokens |-> Len(document), completion_tokens |-> Len(text)]

\* Truncation that keeps one character too many (mutant of Truncate)
TruncateOffByOne(summary_text, maxlen) ==
    IF Len(summary_text) > maxlen THEN Slice(summary_text, 0, maxlen + 1)
    ELSE summary_text
\* Lines 151-152: summary_text[: self.max_length] when longer than max_length
Truncate(summary_text, maxlen) ==
    IF Len(summary_text) > maxlen THEN Slice(summary_text, 0, maxlen)
    ELSE summary_text

\* PDFAnalyzer.analyze_text on a reply of the remote service
analyze_text(reply, maxlen) ==
    [summary |-> Truncate(reply.content, maxlen),
     input_tokens |-> reply.prompt_tokens,
     output_tokens |-> reply.completion_tokens]

\* Files of the output directory
NoFile == [kind |-> "none"]
Foreign == [kind |-> "foreign"]   \* content this program did not write
Partial == [kind |-> "partial"]   \* file opened for writing, JSON incomplete
JsonFile(result) == [kind |-> "json", data |-> result]

\* A check that re-validates the content (mutant of Exists)
ExistsAsValidJson(o, p) == o[p].kind = "json"
\* A check that never finds the file (mutant of Exists)
ExistsNever(o, p) == FALSE
\* output_json_path.exists() of line 250
Exists(o, p) == o[p].kind # "none"

\* PDFAnalyzer.save_to_json: open(output_path, "w") creates or empties the file
\* before json.dump writes into it.
save_to_json(o, p, data, outcome) ==
    IF outcome = "open_raises" THEN o
    ELSE IF outcome = "dump_raises" THEN [o EXCEPT ![p] = Partial]
    ELSE [o EXCEPT ![p] = JsonFile(data)]

SaveOutcomes == {"ok", "open_raises", "dump_raises"}

\* The result record of lines 262-268
Result(p, analysis) ==
    [input_pdf |-> p, prompt |-> "template",
     summary |-> analysis.summary,
     input_tokens |-> analysis.input_tokens,
     output_tokens |-> analysis.output_tokens]

Event(kind, p, ok, text) == [kind |-> kind, pdf |-> p, ok |-> ok, text |-> text]

\* An exception of the loop body that escapes to the top level (mutant of
\* FileErrorHandler)
FileErrorPropagates(i) == [pc |-> "exited", idx |-> i, exitCode |-> 1]
\* except Exception: log and continue (lines 274-276)
FileErrorHandler(i) == [pc |-> "check", idx |-> i + 1, exitCode |-> 0]

\* Extraction errors swallowed (mutant of AfterExtract)
AfterExtractAlwaysAnalyze(ok, i) == [pc |-> "analyze", idx |-> i, exitCode |-> 0]
\* Line 258: extract_text returns or raises into the handler
AfterExtract(ok, i) ==
    IF ok THEN [pc |-> "analyze", idx |-> i, exitCode |-> 0] ELSE FileErrorHandler(i)

\* A failed request issued again (mutant of AfterAnalyze)
AfterAnalyzeRetry(ok, i) ==
    IF ok THEN [pc |-> "save", idx |-> i, exitCode |-> 0]
    ELSE [pc |-> "analyze", idx |-> i, exitCode |-> 0]
\* Line 260: analyze_text returns or raises into the handler
AfterAnalyze(ok, i) ==
    IF ok THEN [pc |-> "save", idx |-> i, exitCode |-> 0] ELSE FileErrorHandler(i)

\* list(input_dir.glob("*.pdf")): every file once, in any order
Orderings(S) ==
    {s \in [1..Cardinality(S) -> S] : \A a, b \in 1..Cardinality(S) : s[a] = s[b] => a = b}

-----------------------------------------------------------------------------
(* Initial states *)

Placeholder(name) == <<"$", "{">> \o name \o <<"}">>

\* config.yaml of the batch: directories, optionally summary.max_length, and
\* xai with an api_key placeholder and optionally a model.
BatchConfig(lengths, models) ==
    Dict(<< <<"directories",
              Dict(<< <<"input", StrVal(<<"i">>)>>, <<"output", StrVal(<<"o">>)>> >>)>> >>
         \o [j \in 1..Len(lengths) |->
               <<"summary", Dict(<< <<"max_length", IntVal(lengths[j])>> >>)>>]
         \o << <<"xai",
                 Dict(<< <<"api_key", StrVal(Placeholder(<<"A">>))>> >>
                      \o [j \in 1..Len(models) |-> <<"model", StrVal(models[j])>>])>> >>)

NoConfigFile == [exists |-> FALSE, parses |-> FALSE, tree |-> Dict(<<>>)]
MalformedConfigFile == [exists |-> TRUE, parses |-> FALSE, tree |-> Dict(<<>>)]
ConfigFileOf(tree) == [exists |-> TRUE, parses |-> TRUE, tree |-> tree]

Environments(names, values) == UNION {[D -> values] : D \in SUBSET names}

NoResult == [summary |-> <<>>, input_tokens |-> 0, output_tokens |-> 0]

\* The state of a freshly started script, whatever the files and environment
InitProcess ==
    /\ pc = "start"
    /\ exitCode = 0
    /\ config = Dict(<<>>)
    /\ max_length = 0
    /\ pdf_files = <<>>
    /\ idx = 0
    /\ pdf_text = <<>>
    /\ analysis_result = NoResult
    /\ run = 1
    /\ out0 = out
    /\ events = <<>>
    /\ failedPrev = {}

\* Directories and files before the first run: output files that already exist
\* hold content of any kind.
InitFiles(pdfSets) ==
    /\ dirs \in SUBSET {"input", "output"}
    /\ inputDir \in pdfSets
    /\ "input" \notin dirs => inputDir = {}
    /\ out \in [Pdfs -> {NoFile, Foreign}]
    /\ "output" \notin dirs => \A p \in Pdfs : out[p] = NoFile

Init ==
    /\ configFile \in
         {NoConfigFile, MalformedConfigFile}
         \cup {ConfigFileOf(BatchConfig(l, m)) :
                 l \in {<<>>, <<MaxTextLen - 1>>}, m \in {<<>>, << <<>> >>}}
    /\ environ \in Environments({<<"A">>}, {<<>>, <<"v">>})
    /\ InitFiles(SUBSET Pdfs)
    /\ InitProcess

-----------------------------------------------------------------------------
(* The script *)

Exit(code) ==
    /\ pc' = "exited"
    /\ exitCode' = code

\* Lines 282-288: load_dotenv, load_configuration, exit(1) when it raises.
\* pc = "main" says that loading returned; what the script does with a loaded
\* value that is not a mapping is not modelled.
LoadInitialConfig ==
    /\ pc = "start"
    /\ config' = load_config(configFile, environ)
    /\ IF IsRaise(config') THEN Exit(1) ELSE pc' = "main" /\ exitCode' = exitCode
    /\ UNCHANGED <<configFile, environ, dirs, inputDir, out, max_length, pdf_files,
                   idx, pdf_text, analysis_result, run, out0, events, failedPrev>>

\* mkdir(parents=True, exist_ok=True) of both directories, lines 211-212
Mkdirs == <<"input", "output">>
MkdirEvents ==
    LET missing == SelectSeq(Mkdirs, LAMBDA d : d \notin dirs)
    IN  [j \in 1..Len(missing) |-> Event("mkdir", 0, TRUE, <<missing[j]>>)]

GrokBeta == <<"g", "r", "o", "k", "-", "b", "e", "t", "a">>

\* main() up to the loop, lines 204-244; an exception is caught at lines 298-300
MainStartup ==
    /\ pc = "main"
    /\ LET cfg == load_config(configFile, environ)
       IN  IF IsRaise(cfg)
           THEN /\ Exit(1)
                /\ UNCHANGED <<max_length, dirs, events, pdf_files, idx>>
           ELSE /\ max_length' =
                      Get(Get(cfg, "summary", Dict(<<>>)), "max_length",
                          IntVal(DefaultMaxLength)).val
                /\ dirs' = dirs \cup {"input", "output"}
                /\ events' = events \o MkdirEvents
                /\ IF Get(Get(cfg, "xai", Dict(<<>>)), "model", StrVal(GrokBeta)).val = <<>>
                   THEN /\ Exit(1)
                        /\ UNCHANGED <<pdf_files, idx>>
                   ELSE \E order \in Orderings(inputDir) :
                          /\ pdf_files' = order
                          /\ IF order = <<>>
                             THEN Exit(0) /\ idx' = idx
                             ELSE pc' = "check" /\ idx' = 1 /\ exitCode' = exitCode
    /\ UNCHANGED <<configFile, environ, inputDir, out, config, pdf_text,
                   analysis_result, run, out0, failedPrev>>

Goto(next) ==
    /\ pc' = next.pc
    /\ idx' = next.idx
    /\ exitCode' = next.exitCode

\* Lines 246-254: the output path of the next PDF; skip it when the file exists
CheckExisting ==
    /\ pc = "check"
    /\ idx <= Len(pdf_files)
    /\ LET pdf_path == pdf_files[idx]
       IN  IF Exists(out, pdf_path)
           THEN /\ events' = Append(events, Event("skip", pdf_path, TRUE, <<>>))
                /\ idx' = idx + 1
                /\ pc' = "check"
           ELSE /\ pc' = "extract"
                /\ UNCHANGED <<events, idx>>
    /\ UNCHANGED <<configFile, environ, dirs, inputDir, out, exitCode, config,
                   max_length, pdf_files, pdf_text, analysis_result, run, out0,
                   failedPrev>>

\* Lines 256-258: extract_text returns the text or raises
ExtractText ==
    /\ pc = "extract"
    /\ \E ok \in BOOLEAN :
         /\ events' = Append(events, Event("extract", pdf_files[idx], ok, <<>>))
         /\ pdf_text' = IF ok THEN extract_text(PdfPages(pdf_files[idx])) ELSE pdf_text
         /\ Goto(AfterExtract(ok, idx))
    /\ UNCHANGED <<configFile, environ, dirs, inputDir, out, config, max_length,
                   pdf_files, analysis_result, run, out0, failedPrev>>

\* Line 260: one invocation of the chain; the remote call answers with one of
\* `texts` or raises
AnalyzeText(texts) ==
    /\ pc = "analyze"
    /\ \/ \E text \in texts :
            /\ events' = Append(events, Event("request", pdf_files[idx], TRUE, text))
            /\ analysis_result' = analyze_text(Reply(pdf_text, text), max_length)
            /\ Goto(AfterAnalyze(TRUE, idx))
       \/ /\ events' = Append(events, Event("request", pdf_files[idx], FALSE, <<>>))
          /\ analysis_result' = analysis_result
          /\ Goto(AfterAnalyze(FALSE, idx))
    /\ UNCHANGED <<configFile, environ, dirs, inputDir, out, config, max_length,
                   pdf_files, pdf_text, run, out0, failedPrev>>

\* Lines 262-276: assemble the result and save it; a failure is logged and
\* the loop continues
SaveToJson ==
    /\ pc = "save"
    /\ \E outcome \in SaveOutcomes :
         /\ out' = save_to_json(out, pdf_files[idx],
                                Result(pdf_files[idx], analysis_result), outcome)
         /\ events' = Append(events,
                             Event("write", pdf_files[idx], outcome = "ok", <<>>))
         /\ Goto(IF outcome = "ok" THEN [pc |-> "check", idx |-> idx + 1, exitCode |-> 0]
                 ELSE FileErrorHandler(idx))
    /\ UNCHANGED <<configFile, environ, dirs, inputDir, config, max_length,
                   pdf_files, pdf_text, analysis_result, run, out0, failedPrev>>

\* Line 278 and the end of the script: exit code 0
LoopEnd ==
    /\ pc = "check"
    /\ idx > Len(pdf_files)
    /\ Exit(0)
    /\ UNCHANGED <<configFile, environ, dirs, inputDir, out, config, max_length,
                   pdf_files, idx, pdf_text, analysis_result, run, out0, events,
                   failedPrev>>

Failed(p) == \E j \in 1..Len(events) : events[j].pdf = p /\ ~events[j].ok

\* The script is started again on the same directories, configuration and
\* environment.
NextRun ==
    /\ pc = "exited"
    /\ run < MaxRuns
    /\ run' = run + 1
    /\ pc' = "start"
    /\ exitCode' = 0
    /\ config' = Dict(<<>>)
    /\ max_length' = 0
    /\ pdf_files' = <<>>
    /\ idx' = 0
    /\ pdf_text' = <<>>
    /\ analysis_result' = NoResult
    /\ out0' = out
    /\ events' = <<>>
    /\ failedPrev' = {p \in Pdfs : Failed(p)}
    /\ UNCHANGED <<configFile, environ, dirs, inputDir, out>>

Step(texts) ==
    \/ LoadInitialConfig
    \/ MainStartup
    \/ CheckExisting
    \/ ExtractText
    \/ AnalyzeText(texts)
    \/ SaveToJson
    \/ LoopEnd
    \/ NextRun

Next == Step(ServiceTexts)

Spec == Init /\ [][Next]_vars

-----------------------------------------------------------------------------
(* Specifications of the two pure functions *)

\* Summary truncation: one PDF, every configured max_length of the range and
\* every generated text up to MaxTextLen characters.
InitAnalyze ==
    /\ configFile \in {ConfigFileOf(BatchConfig(<<m>>, <<>>)) :
                         m \in (0 - NegMaxLength)..MaxMaxLength}
    /\ environ = [n \in {<<"A">>} |-> <<"v">>]
    /\ dirs = {"input", "output"}
    /\ inputDir = {1}
    /\ out = [p \in Pdfs |-> NoFile]
    /\ InitProcess

NextAnalyze == Step(AllTexts)

SpecAnalyze == InitAnalyze /\ [][NextAnalyze]_vars

\* Placeholder resolution: configuration trees up to MaxDepth over a few
\* leaves, and every single string up to MaxStrLen characters.
ConfigChars == {"$", "{", "}", "A"}
SampleLeaves ==
    {StrVal(Placeholder(<<"A">>)), StrVal(<<"A">> \o Placeholder(<<"A">>)), IntVal(7)}

RECURSIVE ConfigTrees(_)
ConfigTrees(d) ==
    IF d = 0 THEN SampleLeaves
    ELSE LET T == ConfigTrees(d - 1)
         IN  T \cup {List(<<>>), Dict(<<>>)}
               \cup {List(<<t>>) : t \in T}
               \cup {List(<<t, u>>) : t \in T, u \in SampleLeaves}
               \cup {Dict(<< <<k, t>> >>) : k \in {"a", "b"}, t \in T}
               \cup {Dict(<< <<"a", t>>, <<"b", u>> >>) : t \in T, u \in SampleLeaves}

InitResolve ==
    /\ configFile \in
         {ConfigFileOf(t) : t \in ConfigTrees(MaxDepth)}
         \cup {ConfigFileOf(StrVal(s)) : s \in SeqsUpTo(ConfigChars, MaxStrLen)}
    /\ environ \in Environments({<<"A">>, <<"A", "}">>},
                                {<<>>, <<"v">>, Placeholder(<<"A">>)})
    /\ dirs = {}
    /\ inputDir = {}
    /\ out = [p \in Pdfs |-> NoFile]
    /\ InitProcess

NextResolve == LoadInitialConfig

SpecResolve == InitResolve /\ [][NextResolve]_vars

-----------------------------------------------------------------------------
(* Vocabulary of the properties *)

Ev(kind, p) == {j \in 1..Len(events) : events[j].kind = kind /\ events[j].pdf = p}
EvOk(kind, p) == {j \in Ev(kind, p) : events[j].ok}
Attempted(p) == Ev("extract", p) # {}
Pos(p) == CHOOSE j \in 1..Len(pdf_files) : pdf_files[j] = p
Enumerated == Range(pdf_files)
FileEvents == {j \in 1..Len(events) : events[j].kind # "mkdir"}
Rank(kind) == CASE kind = "skip" -> 0 [] kind = "extract" -> 1
                [] kind = "request" -> 2 [] OTHER -> 3

\* summary.max_length as the configuration file gives it
ConfiguredMaxLength ==
    Get(Get(configFile.tree, "summary", Dict(<<>>)), "max_length",
        IntVal(DefaultMaxLength)).val

\* The text the remote service generated for p in this run
GeneratedText(p) == events[CHOOSE j \in EvOk("request", p) : TRUE].text

\* A string of the whole-value form ${X}, and its X
WholeForm(s) == \E n \in 0..(Len(s) - 3) : s = Placeholder(SubSeq(s, 3, 2 + n))
NameIn(s) ==
    CHOOSE X \in {SubSeq(s, 3, 2 + n) : n \in 0..(Len(s) - 3)} : s = Placeholder(X)
Unset(env, X) == X \notin DOMAIN env \/ env[X] = <<>>

\* The environment variables a configuration tree refers to
RECURSIVE Referenced(_)
Referenced(t) ==
    IF t.tag = "str" THEN (IF WholeForm(t.val) THEN {NameIn(t.val)} ELSE {})
    ELSE IF t.tag = "list" THEN UNION {Referenced(t.val[j]) : j \in 1..Len(t.val)}
    ELSE IF t.tag = "dict" THEN UNION {Referenced(t.val[j][2]) : j \in 1..Len(t.val)}
    ELSE {}

\* r is t with each whole-value placeholder replaced by its variable's value
\* and everything else as it was, position by position
RECURSIVE Substituted(_, _, _)
Substituted(t, r, env) ==
    IF t.tag = "str" /\ WholeForm(t.val) THEN r = StrVal(env[NameIn(t.val)])
    ELSE IF t.tag = "list" THEN
        /\ r.tag = "list"
        /\ Len(r.val) = Len(t.val)
        /\ \A j \in 1..Len(t.val) : Substituted(t.val[j], r.val[j], env)
    ELSE IF t.tag = "dict" THEN
        /\ r.tag = "dict"
        /\ Len(r.val) = Len(t.val)
        /\ \A j \in 1..Len(t.val) :
             /\ r.val[j][1] = t.val[j][1]
             /\ Substituted(t.val[j][2], r.val[j][2], env)
    ELSE r = t

\* Configuration loading fails: file missing, malformed, or a referenced
\* environment variable unset or empty
ConfigError ==
    \/ ~configFile.exists
    \/ ~configFile.parses
    \/ \E X \in Referenced(configFile.tree) : Unset(environ, X)

-----------------------------------------------------------------------------
(* Properties *)

\* The summary s of a generated text t under the limit m, as stated: cut to
\* exactly the first m characters when longer, unchanged otherwise
TruncatedTo(t, s, m) ==
    IF Len(t) > m THEN Len(s) = m /\ s = SubSeq(t, 1, m) ELSE s = t

SummariesTruncated ==
    /\ pc = "save" =>
         TruncatedTo(events[Len(events)].text, analysis_result.summary,
                     ConfiguredMaxLength)
    /\ \A p \in Pdfs : EvOk("write", p) # {} =>
         /\ out[p].kind = "json"
         /\ TruncatedTo(GeneratedText(p), out[p].data.summary, ConfiguredMaxLength)
    /\ \A p \in Pdfs : out[p].kind = "json" =>
         Len(out[p].data.summary) <= ConfiguredMaxLength

\* C1 as stated: for every configured integer max_length, the summary returned
\* by analyze_text and persisted is the generated text cut to exactly its
\* first max_length characters when it is longer and the generated text itself
\* otherwise, so every persisted summary is at most max_length long.
C1_TruncationAnyLimit == SummariesTruncated

\* C1 amended: the same for every configured max_length that is not negative.
C1_TruncationNonNegativeLimit == ConfiguredMaxLength >= 0 => SummariesTruncated

\* C1 witness: a text longer than a non-negative limit was generated and its
\* cut summary persisted.
C1_Witness ==
    /\ ConfiguredMaxLength >= 0
    /\ \E p \in Pdfs :
         /\ EvOk("write", p) # {}
         /\ Len(GeneratedText(p)) > ConfiguredMaxLength
         /\ out[p].kind = "json"
         /\ Len(out[p].data.summary) = ConfiguredMaxLength
         /\ out[p].data.summary # GeneratedText(p)

\* C2 as stated: in a second run on the same input directory no output file
\* is created or modified and every PDF is skipped, whatever happened to each
\* PDF in the first run.
C2_SecondRunChangesNothing ==
    run >= 2 => out = out0 /\ \A p \in Pdfs : ~Attempted(p)

\* C2 amended: a second run modifies no output file that existed after the
\* first run and skips every PDF that has one; the PDFs it attempts again, and
\* the only ones it may create an output file for, are those whose processing
\* failed in the first run and left no output file.
C2_SecondRunKeepsExistingOutputs ==
    run >= 2 =>
      \A p \in Pdfs :
        /\ out0[p] # NoFile => out[p] = out0[p]
        /\ (Attempted(p) \/ out[p] # out0[p]) => p \in failedPrev /\ out0[p] = NoFile
        /\ (pc = "exited" /\ p \in Enumerated /\ out0[p] # NoFile) => Ev("skip", p) # {}
        /\ (pc = "exited" /\ p \in Enumerated /\ out0[p] = NoFile) => Attempted(p)

\* C2 witness: a finished second run that skipped a PDF summarised by the
\* first run and wrote the output of a PDF that had failed in the first run.
C2_Witness ==
    /\ run = 2
    /\ pc = "exited"
    /\ \E p, q \in Enumerated :
         /\ out0[p].kind = "json" /\ Ev("skip", p) # {} /\ out[p] = out0[p]
         /\ q \in failedPrev /\ out0[q] = NoFile /\ out[q].kind = "json"

\* C3: a PDF whose output file exists when the loop reaches it gets no text
\* extraction and no remote request, and its output file keeps its content,
\* whatever that content is.
C3_ExistingOutputSkipped ==
    \A p \in Enumerated :
      out0[p] # NoFile =>
        /\ Ev("extract", p) = {} /\ Ev("request", p) = {} /\ Ev("write", p) = {}
        /\ out[p] = out0[p]

\* C3 witness: a run passed over a PDF whose output file had foreign content
\* and processed another PDF.
C3_Witness ==
    \E p, q \in Enumerated :
      /\ out0[p] = Foreign /\ Ev("skip", p) # {} /\ out[p] = Foreign
      /\ EvOk("write", q) # {}

\* C4: a failure of extraction, summarization or persistence for one PDF does
\* not abort the batch: the run still ends with exit code 0 after every
\* enumerated PDF without an output file was extracted, then summarized when
\* extraction succeeded, then persisted when summarization succeeded, and the
\* output JSON of each PDF whose steps all succeeded is written in that run.
C4_FailureIsolation ==
    /\ (\E p \in Pdfs : Failed(p)) => ~(pc = "exited" /\ exitCode # 0)
    /\ (pc = "exited" /\ exitCode = 0) =>
         \A p \in Enumerated :
           out0[p] = NoFile =>
             /\ Attempted(p)
             /\ EvOk("extract", p) # {} => Ev("request", p) # {}
             /\ EvOk("request", p) # {} => Ev("write", p) # {}
             /\ EvOk("write", p) # {} =>
                  /\ out[p].kind = "json"
                  /\ out[p].data.input_pdf = p

\* C4 witness: a finished run in which one PDF failed and a later PDF got its
\* output JSON.
C4_Witness ==
    /\ pc = "exited"
    /\ \E j, k \in 1..Len(events) :
         /\ j < k
         /\ ~events[j].ok
         /\ events[k].kind = "write" /\ events[k].ok
         /\ events[k].pdf # events[j].pdf
         /\ out[events[k].pdf].kind = "json"

\* C5 as stated: a PDF without an output file whose processing fails at any
\* step, the JSON write included, has no output file when its iteration ends;
\* an output file appears only when extraction, summarization and the write
\* all succeeded.
C5_NoOutputOnFailure ==
    \A p \in Pdfs :
      /\ (Failed(p) /\ out0[p] = NoFile) => out[p] = NoFile
      /\ (out0[p] = NoFile /\ out[p] # NoFile) =>
           /\ EvOk("extract", p) # {}
           /\ EvOk("request", p) # {}
           /\ EvOk("write", p) # {}

\* C6 as stated: every PDF whose processing failed in one run, at extraction,
\* summarization or persistence, is attempted again by the next run.
C6_FailedPdfRetried ==
    (run >= 2 /\ pc = "exited" /\ exitCode = 0) =>
      \A p \in failedPrev : Attempted(p) /\ Ev("skip", p) = {}

\* C7: after loading a configuration tree, loading has failed exactly when a
\* whole-value ${X} string names a variable that is unset or empty; otherwise
\* the loaded tree has the value of X at each such string and every other
\* value unchanged at its position.
C7_PlaceholdersResolved ==
    (pc # "start" /\ configFile.exists /\ configFile.parses) =>
      IF \E X \in Referenced(configFile.tree) : Unset(environ, X)
      THEN config.tag = "EnvironmentError" /\ pc = "exited" /\ exitCode # 0
      ELSE pc = "main" /\ Substituted(configFile.tree, config, environ)

\* C7 witness: a loaded mapping with a sequence in it, in which a whole-value
\* placeholder was replaced and a string that only contains one was kept.
C7_Witness ==
    /\ pc = "main"
    /\ configFile.tree.tag = "dict"
    /\ \E j \in 1..Len(config.val) :
         /\ config.val[j][2].tag = "list"
         /\ Len(config.val[j][2].val) = 2
         /\ configFile.tree.val[j][2].val[1] = StrVal(Placeholder(<<"A">>))
         /\ config.val[j][2].val[1] = StrVal(environ[<<"A">>])
         /\ config.val[j][2].val[2] = StrVal(<<"A">> \o Placeholder(<<"A">>))

\* The configured model is the empty string (the ValueError of main)
ModelMissing ==
    Get(Get(configFile.tree, "xai", Dict(<<>>)), "model", StrVal(GrokBeta)).val = <<>>

\* C8: when configuration loading fails the process exits non-zero and in that
\* execution no directory is created, no PDF is extracted, no remote call is
\* made and no output file is written; a run whose configuration loads and
\* that meets only per-file failures or no PDF exits with code 0.
C8_StartupErrorsFatal ==
    /\ ConfigError =>
         /\ pc \in {"start", "exited"}
         /\ pc = "exited" => exitCode # 0
         /\ events = <<>> /\ out = out0
    /\ (pc = "exited" /\ ~ConfigError /\ ~ModelMissing) => exitCode = 0

\* C8 witness: a run stopped by an unset or empty environment variable with
\* PDFs waiting and directories missing.
C8_Witness ==
    /\ pc = "exited" /\ exitCode = 1
    /\ configFile.exists /\ configFile.parses /\ ConfigError
    /\ dirs # {"input", "output"}
    /\ \E p \in inputDir : out[p] = NoFile

\* C9: within a run the events of each PDF come in the order extract,
\* summarize, persist, a request only after that PDF's extraction succeeded
\* and a write only after its request succeeded, and every event of a PDF comes
\* before any event of the PDFs after it in the enumeration.
C9_SequentialOrder ==
    /\ \A j, k \in FileEvents :
         j < k =>
           /\ Pos(events[j].pdf) <= Pos(events[k].pdf)
           /\ events[j].pdf = events[k].pdf =>
                Rank(events[j].kind) < Rank(events[k].kind)
    /\ \A k \in FileEvents :
         /\ events[k].kind = "request" =>
              \E j \in EvOk("extract", events[k].pdf) : j < k
         /\ events[k].kind = "write" =>
              \E j \in EvOk("request", events[k].pdf) : j < k
         /\ Pos(events[k].pdf) <= idx
         /\ pc \in {"extract", "analyze", "save"} => Pos(events[k].pdf) < idx \/
              Rank(events[k].kind) < Rank(IF pc = "extract" THEN "extract"
                                          ELSE IF pc = "analyze" THEN "request"
                                          ELSE "write")

\* C9 witness: a finished run that extracted, summarized and persisted two
\* PDFs.
C9_Witness ==
    /\ pc = "exited"
    /\ \E p, q \in Enumerated : p # q /\ EvOk("write", p) # {} /\ EvOk("write", q) # {}

\* C10: a run issues at most one remote request per PDF, none for a PDF whose
\* extraction raised or whose output file exists, so never more requests than
\* there are PDFs without an output file.
C10_NoRetry ==
    /\ \A p \in Pdfs :
         /\ Cardinality(Ev("request", p)) <= 1
         /\ (out0[p] # NoFile \/ EvOk("extract", p) = {}) => Ev("request", p) = {}
    /\ Cardinality({j \in FileEvents : events[j].kind = "request"})
         <= Cardinality({p \in Enumerated : out0[p] = NoFile})

\* C10 witness: a finished run in which a request raised and was not issued
\* again, and a PDF whose extraction raised got none.
C10_Witness ==
    /\ pc = "exited"
    /\ \E p, q \in Enumerated :
         /\ Cardinality(Ev("request", p)) = 1 /\ EvOk("request", p) = {}
         /\ Ev("extract", q) # {} /\ EvOk("extract", q) = {} /\ Ev("request", q) = {}

====
